---------------------------- MODULE Spec2Model ----------------------------
(***************************************************************************)
(* Service-to-service request authentication of the DogHouse user-service: *)
(* ServiceAuthGuard (inbound verification) and ServiceAuthClient (outbound *)
(* signing).                                                               *)
(*                                                                         *)
(* JavaScript strings are sequences of one-character strings, so that      *)
(* parseInt, toString, toUpperCase, template concatenation and hex         *)
(* decoding are computed character by character as the runtime does.       *)
(***************************************************************************)
EXTENDS Integers, Sequences, FiniteSets, TLC

(***************************************************************************)
(* JavaScript values                                                       *)
(***************************************************************************)

\* the JavaScript value undefined (an absent header, property or env var)
undefined == <<"<undefined>">>

\* JavaScript truthiness of a string-or-undefined value: `!s` is true for
\* undefined and for the empty string
Truthy(s) == s # undefined /\ Len(s) > 0

\* `a || b` on string-or-undefined values
OrElse(a, b) == IF Truthy(a) THEN a ELSE b

Digits == <<"0", "1", "2", "3", "4", "5", "6", "7", "8", "9">>

DigitValue ==
  ("0" :> 0) @@ ("1" :> 1) @@ ("2" :> 2) @@ ("3" :> 3) @@ ("4" :> 4) @@
  ("5" :> 5) @@ ("6" :> 6) @@ ("7" :> 7) @@ ("8" :> 8) @@ ("9" :> 9)

IsDigit(c) == c \in DOMAIN DigitValue

IsWhiteSpace(c) == c = " "

\* value of the leading run of decimal digits of s, continuing from acc
RECURSIVE DigitRun(_, _)
DigitRun(s, acc) ==
  IF s = <<>> \/ ~IsDigit(Head(s)) THEN acc
  ELSE DigitRun(Tail(s), acc * 10 + DigitValue[Head(s)])

RECURSIVE TrimStart(_)
TrimStart(s) ==
  IF s # <<>> /\ IsWhiteSpace(Head(s)) THEN TrimStart(Tail(s)) ELSE s

\* parseInt(s, 10): leading white space is skipped, an optional sign is
\* read, then the longest run of decimal digits; whatever follows the run
\* is ignored; NaN when there is no digit at that place
ParseInt(s) ==
  LET t == TrimStart(s)
      neg == t # <<>> /\ Head(t) = "-"
      u == IF t # <<>> /\ Head(t) \in {"-", "+"} THEN Tail(t) ELSE t
  IN IF u = <<>> \/ ~IsDigit(Head(u))
       THEN [nan |-> TRUE, val |-> 0]
       ELSE [nan |-> FALSE,
             val |-> IF neg THEN 0 - DigitRun(u, 0) ELSE DigitRun(u, 0)]

\* Number.prototype.toString() of an integer
RECURSIVE NatToString(_)
NatToString(n) ==
  IF n < 10 THEN <<Digits[n + 1]>>
  ELSE NatToString(n \div 10) \o <<Digits[(n % 10) + 1]>>

NumberToString(n) == IF n < 0 THEN <<"-">> \o NatToString(0 - n) ELSE NatToString(n)

UpperOf ==
  ("a" :> "A") @@ ("b" :> "B") @@ ("c" :> "C") @@ ("d" :> "D") @@
  ("e" :> "E") @@ ("f" :> "F") @@ ("g" :> "G") @@ ("o" :> "O") @@
  ("p" :> "P") @@ ("s" :> "S") @@ ("t" :> "T") @@ ("u" :> "U") @@
  ("x" :> "X")

\* String.prototype.toUpperCase()
ToUpperCase(s) ==
  [i \in 1..Len(s) |-> IF s[i] \in DOMAIN UpperOf THEN UpperOf[s[i]] ELSE s[i]]

(***************************************************************************)
(* Hex encoding and HMAC                                                   *)
(***************************************************************************)

HexDigits ==
  <<"0", "1", "2", "3", "4", "5", "6", "7",
    "8", "9", "a", "b", "c", "d", "e", "f">>

HexValue ==
  DigitValue @@
  ("a" :> 10) @@ ("b" :> 11) @@ ("c" :> 12) @@ ("d" :> 13) @@
  ("e" :> 14) @@ ("f" :> 15) @@
  ("A" :> 10) @@ ("B" :> 11) @@ ("C" :> 12) @@ ("D" :> 13) @@
  ("E" :> 14) @@ ("F" :> 15)

IsHexDigit(c) == c \in DOMAIN HexValue

\* digest('hex'): two lowercase hex digits per byte
HexEncode(bytes) ==
  [j \in 1..(2 * Len(bytes)) |->
     LET b == bytes[(j + 1) \div 2]
     IN IF j % 2 = 1 THEN HexDigits[(b \div 16) + 1] ELSE HexDigits[(b % 16) + 1]]

\* Buffer.from(s, 'hex'): pairs of hex digits are decoded until the first
\* pair that is not two hex digits; an odd trailing character is dropped
BufferFromHex(s) ==
  LET bad == { k \in 1..(Len(s) \div 2) :
                 ~IsHexDigit(s[2 * k - 1]) \/ ~IsHexDigit(s[2 * k]) }
      n == IF bad = {} THEN Len(s) \div 2
           ELSE (CHOOSE k \in bad : \A l \in bad : k <= l) - 1
  IN [k \in 1..n |-> HexValue[s[2 * k - 1]] * 16 + HexValue[s[2 * k]]]

CharCode ==
  ("0" :> 48) @@ ("1" :> 49) @@ ("2" :> 50) @@ ("3" :> 51) @@ ("4" :> 52) @@
  ("5" :> 53) @@ ("6" :> 54) @@ ("7" :> 55) @@ ("8" :> 56) @@ ("9" :> 57) @@
  (" " :> 32) @@ ("\"" :> 34) @@ ("+" :> 43) @@ ("-" :> 45) @@ ("/" :> 47) @@
  (":" :> 58) @@ ("=" :> 61) @@ ("?" :> 63) @@ ("{" :> 123) @@ ("}" :> 125) @@
  ("A" :> 65) @@ ("B" :> 66) @@ ("C" :> 67) @@ ("D" :> 68) @@ ("E" :> 69) @@
  ("F" :> 70) @@ ("G" :> 71) @@ ("O" :> 79) @@ ("P" :> 80) @@ ("S" :> 83) @@
  ("T" :> 84) @@ ("U" :> 85) @@ ("X" :> 88) @@
  ("a" :> 97) @@ ("b" :> 98) @@ ("c" :> 99) @@ ("d" :> 100) @@ ("e" :> 101) @@
  ("f" :> 102) @@ ("g" :> 103) @@ ("k" :> 107) @@ ("l" :> 108) @@
  ("o" :> 111) @@ ("p" :> 112) @@ ("s" :> 115) @@ ("t" :> 116) @@
  ("u" :> 117) @@ ("x" :> 120) @@ ("z" :> 122) @@
  ("[" :> 91) @@ ("]" :> 93) @@ ("i" :> 105) @@ ("m" :> 109) @@
  ("n" :> 110) @@ ("r" :> 114) @@ ("v" :> 118) @@ ("y" :> 121) @@
  ("H" :> 72) @@ ("I" :> 73) @@ ("J" :> 74) @@ ("K" :> 75) @@ ("L" :> 76) @@
  ("M" :> 77) @@ ("N" :> 78) @@ ("Q" :> 81) @@ ("R" :> 82) @@ ("V" :> 86) @@
  ("W" :> 87) @@ ("Y" :> 89) @@ ("Z" :> 90) @@
  ("h" :> 104) @@ ("j" :> 106) @@ ("q" :> 113) @@ ("w" :> 119)

\* one polynomial mixing pass over the UTF-8 bytes of s
RECURSIVE Mix(_, _, _, _)
Mix(s, h, mul, modulus) ==
  IF s = <<>> THEN h
  ELSE Mix(Tail(s), (h * mul + CharCode[Head(s)]) % modulus, mul, modulus)

\* crypto.createHmac('sha256', key).update(content).digest(): a keyed digest
\* of fixed length, a function of key and content only.  It is scaled down
\* from 32 bytes to 4; HmacCollisionFree states that it separates every pair
\* of (key, content) the model uses, as HMAC-SHA256 does in practice.
HmacDigest(key, content) ==
  LET keyed == key \o <<":", ":">> \o content
      h1 == Mix(keyed, 7 + Len(key), 31, 32749)
      h2 == Mix(keyed, 11 + Len(content), 37, 32719)
  IN <<h1 \div 256, h1 % 256, h2 \div 256, h2 % 256>>

\* createSignature(content, key): hex-encoded lowercase HMAC
createSignatureUpperCase(content, key) ==
  ToUpperCase(HexEncode(HmacDigest(key, content)))

createSignature(content, key) == HexEncode(HmacDigest(key, content))

\* crypto.timingSafeEqual(a, b): throws when the byte lengths differ
timingSafeEqual(a, b) ==
  IF Len(a) # Len(b) THEN [threw |-> TRUE, value |-> FALSE]
  ELSE [threw |-> FALSE, value |-> a = b]

\* the body of safeCompare(a, b): whether the call throws, whether it got
\* as far as comparing contents, and the value it returns
safeCompareTryUncaught(a, b) ==
  IF Len(a) # Len(b) THEN [threw |-> FALSE, compared |-> FALSE, value |-> FALSE]
  ELSE LET r == timingSafeEqual(BufferFromHex(a), BufferFromHex(b))
       IN [threw |-> r.threw, compared |-> TRUE, value |-> r.value]

safeCompareTry(a, b) ==
  IF Len(a) # Len(b) THEN [threw |-> FALSE, compared |-> FALSE, value |-> FALSE]
  ELSE LET r == timingSafeEqual(BufferFromHex(a), BufferFromHex(b))
       IN IF r.threw THEN [threw |-> FALSE, compared |-> TRUE, value |-> FALSE]
          ELSE [threw |-> FALSE, compared |-> TRUE, value |-> r.value]

\* safeCompare(a, b)
safeCompareLengthOnly(a, b) == Len(a) = Len(b)

safeCompare(a, b) == safeCompareTry(a, b).value


(***************************************************************************)
(* Configuration, requests and outcomes                                    *)
(***************************************************************************)

\* a string written as its characters
Str_k == <<"k">>
Str_g == <<"g">>
Str_GET == <<"G", "E", "T">>
Str_get == <<"g", "e", "t">>
Str_POST == <<"P", "O", "S", "T">>
Str_u == <<"/", "u">>
Str_p == <<"/", "p">>
Str_uQuery == <<"/", "u", "?", "x", "=", "1">>

\* service identifiers are compared as wholes only and are written as one
\* piece of text
UserService == <<"user-service">>
ApiGateway == <<"api-gateway">>
PetService == <<"pet-service">>
AuthService == <<"auth-service">>
EvilService == <<"evil-service">>

EnvNames ==
  {"USER_SERVICE_KEY", "API_GATEWAY_KEY", "PET_SERVICE_KEY", "AUTH_SERVICE_KEY"}

\* the environments the process is started with: every key set except the
\* pet-service and auth-service ones, or the user-service key missing too
Environments ==
  { [n \in EnvNames |->
       CASE n = "USER_SERVICE_KEY" -> userKey
         [] n = "API_GATEWAY_KEY" -> Str_g
         [] OTHER -> undefined] : userKey \in {Str_k, undefined} }

\* ConfigService.get(name, defaultValue)
ConfigGet(e, name, defaultValue) ==
  IF e[name] = undefined THEN defaultValue ELSE e[name]

\* JavaScript values a request body (axios `data`, express `body`) takes
JsValues == {"undefined", "{}", "{x:1}", "false"}

JsTruthy(v) == v \in {"{}", "{x:1}"}

\* JSON.stringify(v); undefined for the value undefined
JsonStringify(v) ==
  CASE v = "undefined" -> undefined
    [] v = "{}" -> <<"{", "}">>
    [] v = "{x:1}" -> <<"{", "\"", "x", "\"", ":", "1", "}">>
    [] v = "false" -> <<"f", "a", "l", "s", "e">>

\* `${method}:${path}:${timestamp}:${bodyContent}`
SignatureContent(method, path, timestamp, bodyContent) ==
  method \o <<":">> \o path \o <<":">> \o timestamp \o <<":">> \o bodyContent

NoRequest ==
  [sid |-> undefined, ts |-> undefined, sig |-> undefined,
   method |-> <<>>, path |-> <<>>, body |-> "undefined"]

\* an axios config: method, url, data, the three authentication headers,
\* and `headers`, the other entries of config.headers (undefined when the
\* config has no headers object)
NoConfig ==
  [method |-> undefined, url |-> <<>>, data |-> "undefined",
   sid |-> undefined, ts |-> undefined, sig |-> undefined,
   headers |-> undefined]

NoResult == [accepted |-> FALSE, exception |-> "none", message |-> <<>>]

Returned(v) == [accepted |-> v, exception |-> "none", message |-> <<>>]

UnauthorizedException(message) ==
  [accepted |-> FALSE, exception |-> "UnauthorizedException", message |-> message]

(***************************************************************************)
(* ServiceAuthGuard                                                        *)
(***************************************************************************)

ServiceIds == <<UserService, ApiGateway, PetService, AuthService>>

EnvNameOf ==
  <<"USER_SERVICE_KEY", "API_GATEWAY_KEY", "PET_SERVICE_KEY", "AUTH_SERVICE_KEY">>

\* replay window of the timestamp check, in seconds
ReplayWindowSeconds == 300

\* new ServiceAuthGuard(configService): the key table, one entry per known
\* service, an entry whose env var is not set holding the empty string, and
\* the allow-list made of the table's keys
ServiceAuthGuardConstructor(e) ==
  LET table == { <<ServiceIds[i], ConfigGet(e, EnvNameOf[i], <<>>)>> :
                   i \in 1..Len(ServiceIds) }
  IN [apiKeys |-> table,
      allowedServices |-> [i \in 1..Len(ServiceIds) |-> ServiceIds[i]]]

\* Map.prototype.get
MapGet(map, k) ==
  IF \E e \in map : e[1] = k THEN (CHOOSE e \in map : e[1] = k)[2] ELSE undefined

\* Array.prototype.includes
Includes(array, x) == \E i \in 1..Len(array) : array[i] = x

\* Math.floor(Date.now() / 1000)
UnixSeconds(dateNowMs) == dateNowMs \div 1000

\* `!serviceId || !timestamp || !signature`
HeadersMissing(serviceId, timestamp, signature) ==
  ~Truthy(serviceId) \/ ~Truthy(timestamp) \/ ~Truthy(signature)

\* `!this.allowedServices.includes(serviceId)`
ServiceUnknownNever(allowed, serviceId) == FALSE

ServiceUnknown(allowed, serviceId) == ~Includes(allowed, serviceId)

\* `isNaN(requestTime) || currentTime - requestTime > 300`
TimestampRejectedBothWays(requestTime, currentTime) ==
  \/ requestTime.nan
  \/ currentTime - requestTime.val > ReplayWindowSeconds
  \/ requestTime.val - currentTime > ReplayWindowSeconds

TimestampRejectedFrom300(requestTime, currentTime) ==
  requestTime.nan \/ currentTime - requestTime.val >= ReplayWindowSeconds

TimestampRejected(requestTime, currentTime) ==
  requestTime.nan \/ currentTime - requestTime.val > ReplayWindowSeconds

\* `!apiKey`
KeyMissingOnlyUndefined(apiKey) == apiKey = undefined

KeyMissing(apiKey) == ~Truthy(apiKey)

\* `JSON.stringify(request.body) || ''`
BodyContentIgnored(body) == <<>>

BodyContent(body) == OrElse(JsonStringify(body), <<>>)

\* the guard after a call of canActivate: the call assigns no field
guardAfterForgettingKey(g, req) ==
  [g EXCEPT !.apiKeys = { e \in @ : e[1] # req.sid } \cup {<<req.sid, <<>>>>}]

guardAfter(g, req) == g

\* canActivate with the key looked up before the timestamp is validated
canActivateKeyFirst(req, dateNowMs, keys, allowed) ==
  LET requestTime == ParseInt(req.ts)
      apiKey == MapGet(keys, req.sid)
      signatureContent ==
        SignatureContent(req.method, req.path, req.ts, BodyContent(req.body))
  IN IF HeadersMissing(req.sid, req.ts, req.sig)
       THEN UnauthorizedException(<<"Missing required authentication headers">>)
     ELSE IF ServiceUnknown(allowed, req.sid)
       THEN UnauthorizedException(<<"Unknown service: ">> \o req.sid)
     ELSE IF KeyMissing(apiKey)
       THEN UnauthorizedException(<<"Invalid service credentials">>)
     ELSE IF TimestampRejected(requestTime, UnixSeconds(dateNowMs))
       THEN UnauthorizedException(<<"Request expired or invalid timestamp">>)
     ELSE IF ~safeCompare(req.sig, createSignature(signatureContent, apiKey))
       THEN UnauthorizedException(<<"Invalid signature">>)
     ELSE Returned(TRUE)

\* canActivate(context) on the request of the context, at Date.now() =
\* dateNowMs, for a guard holding keys and allowed
canActivate(req, dateNowMs, keys, allowed) ==
  LET serviceId == req.sid
      timestamp == req.ts
      signature == req.sig
      requestTime == ParseInt(timestamp)
      currentTime == UnixSeconds(dateNowMs)
      apiKey == MapGet(keys, serviceId)
      method == req.method
      path == req.path
      bodyContent == BodyContent(req.body)
      signatureContent == SignatureContent(method, path, timestamp, bodyContent)
      expectedSignature == createSignature(signatureContent, apiKey)
  IN IF HeadersMissing(serviceId, timestamp, signature)
       THEN UnauthorizedException(<<"Missing required authentication headers">>)
     ELSE IF ServiceUnknown(allowed, serviceId)
       THEN UnauthorizedException(<<"Unknown service: ">> \o serviceId)
     ELSE IF TimestampRejected(requestTime, currentTime)
       THEN UnauthorizedException(<<"Request expired or invalid timestamp">>)
     ELSE IF KeyMissing(apiKey)
       THEN UnauthorizedException(<<"Invalid service credentials">>)
     ELSE IF ~safeCompare(signature, expectedSignature)
       THEN UnauthorizedException(<<"Invalid signature">>)
     ELSE Returned(TRUE)

(***************************************************************************)
(* ServiceAuthClient                                                       *)
(***************************************************************************)

\* new ServiceAuthClient(configService): a missing key is warned about and
\* the instance is constructed all the same
ServiceAuthClientConstructor(e) ==
  LET key == ConfigGet(e, "USER_SERVICE_KEY", <<>>)
  IN [threw |-> FALSE, warned |-> ~Truthy(key),
      serviceId |-> UserService, serviceKey |-> key]

\* signRequest(config) at Date.now() = dateNowMs
signRequestNormalizesMethod(cfg, dateNowMs, client) ==
  LET timestamp == NumberToString(UnixSeconds(dateNowMs))
      method == OrElse(IF cfg.method = undefined THEN undefined
                       ELSE ToUpperCase(cfg.method), Str_GET)
      path == OrElse(cfg.url, <<>>)
      bodyContent == IF JsTruthy(cfg.data) THEN JsonStringify(cfg.data) ELSE <<>>
      signatureContent == SignatureContent(method, path, timestamp, bodyContent)
      signature == createSignature(signatureContent, client.serviceKey)
  IN [cfg EXCEPT !.method = method,
                 !.headers = IF cfg.headers = undefined THEN <<>> ELSE cfg.headers,
                 !.sid = client.serviceId, !.ts = timestamp, !.sig = signature]

signRequest(cfg, dateNowMs, client) ==
  LET timestamp == NumberToString(UnixSeconds(dateNowMs))
      method == OrElse(IF cfg.method = undefined THEN undefined
                       ELSE ToUpperCase(cfg.method), Str_GET)
      path == OrElse(cfg.url, <<>>)
      bodyContent == IF JsTruthy(cfg.data) THEN JsonStringify(cfg.data) ELSE <<>>
      signatureContent == SignatureContent(method, path, timestamp, bodyContent)
      signature == createSignature(signatureContent, client.serviceKey)
  IN [cfg EXCEPT !.headers = IF cfg.headers = undefined THEN <<>> ELSE cfg.headers,
                 !.sid = client.serviceId, !.ts = timestamp, !.sig = signature]

\* the part of a URL before its query string (express: request.path)
RECURSIVE PathOf(_)
PathOf(url) ==
  IF url = <<>> \/ Head(url) = "?" THEN <<>>
  ELSE <<Head(url)>> \o PathOf(Tail(url))

\* this.httpClient(config): the request as the receiving service reads it;
\* axios sends the method in upper case (GET when none is given), express
\* splits the URL, and the body and the headers arrive as they were sent
Transport(cfg) ==
  [sid |-> cfg.sid, ts |-> cfg.ts, sig |-> cfg.sig,
   method |-> ToUpperCase(OrElse(cfg.method, Str_get)),
   path |-> PathOf(cfg.url),
   body |-> cfg.data]

(***************************************************************************)
(* DatabaseEncryptionService                                               *)
(***************************************************************************)

\* Buffer.from(s, 'utf8'): one byte per ASCII character, two for e-acute
Utf8Bytes(s) ==
  LET slots == [k \in 1..(2 * Len(s)) |->
                  LET c == s[(k + 1) \div 2]
                  IN IF k % 2 = 1 THEN (IF c = "é" THEN 195 ELSE CharCode[c])
                     ELSE (IF c = "é" THEN 169 ELSE -1)]
  IN SelectSeq(slots, LAMBDA b : b >= 0)

CharOfByte ==
  [b \in { CharCode[c] : c \in DOMAIN CharCode } |->
     CHOOSE c \in DOMAIN CharCode : CharCode[c] = b]

\* buf.toString('utf8'); a byte that is no UTF-8 on its own decodes to the
\* replacement character
Utf8Decode(bytes) ==
  LET second(i) == i > 1 /\ bytes[i - 1] = 195 /\ bytes[i] = 169
      first(i) == i < Len(bytes) /\ bytes[i] = 195 /\ bytes[i + 1] = 169
      units == [i \in 1..Len(bytes) |->
                  IF second(i) THEN ""
                  ELSE IF first(i) THEN "é"
                  ELSE IF bytes[i] \in DOMAIN CharOfByte THEN CharOfByte[bytes[i]]
                  ELSE "<U+FFFD>"]
  IN SelectSeq(units, LAMBDA c : c # "")

Base64Chars ==
  <<"A", "B", "C", "D", "E", "F", "G", "H", "I", "J", "K", "L", "M",
    "N", "O", "P", "Q", "R", "S", "T", "U", "V", "W", "X", "Y", "Z",
    "a", "b", "c", "d", "e", "f", "g", "h", "i", "j", "k", "l", "m",
    "n", "o", "p", "q", "r", "s", "t", "u", "v", "w", "x", "y", "z",
    "0", "1", "2", "3", "4", "5", "6", "7", "8", "9", "+", "/">>

Base64Value ==
  [c \in { Base64Chars[i] : i \in 1..64 } |->
     (CHOOSE i \in 1..64 : Base64Chars[i] = c) - 1]

\* buf.toString('base64'): four characters per three bytes, padded with =
Base64Encode(bytes) ==
  LET n == Len(bytes)
      byte(i) == IF i <= n THEN bytes[i] ELSE 0
  IN [j \in 1..(4 * ((n + 2) \div 3)) |->
        LET g == 3 * ((j - 1) \div 4)
            pos == (j - 1) % 4
        IN CASE pos = 0 -> Base64Chars[(byte(g + 1) \div 4) + 1]
             [] pos = 1 ->
                  Base64Chars[((byte(g + 1) % 4) * 16 + byte(g + 2) \div 16) + 1]
             [] pos = 2 /\ g + 2 > n -> "="
             [] pos = 2 ->
                  Base64Chars[((byte(g + 2) % 16) * 4 + byte(g + 3) \div 64) + 1]
             [] pos = 3 /\ g + 3 > n -> "="
             [] OTHER -> Base64Chars[(byte(g + 3) % 64) + 1]]

\* the base64 digits of s up to its first padding character
Base64Digits(s) ==
  LET pads == { i \in 1..Len(s) : s[i] = "=" }
      end == IF pads = {} THEN Len(s)
             ELSE (CHOOSE i \in pads : \A j \in pads : i <= j) - 1
      digits == SelectSeq(SubSeq(s, 1, end), LAMBDA c : c \in DOMAIN Base64Value)
  IN [i \in 1..Len(digits) |-> Base64Value[digits[i]]]

\* the bytes that a run of 6-bit digits holds
Base64Pack(d) ==
  [k \in 1..((Len(d) * 6) \div 8) |->
     LET i == ((8 * (k - 1)) \div 6) + 1
         offset == (8 * (k - 1)) % 6
     IN CASE offset = 0 -> d[i] * 4 + d[i + 1] \div 16
          [] offset = 2 -> (d[i] % 16) * 16 + d[i + 1] \div 4
          [] OTHER -> (d[i] % 4) * 64 + d[i + 1]]

\* Buffer.from(s, 'base64'): characters that are no base64 digits are
\* skipped and decoding ends at the padding
BufferFromBase64(s) == Base64Pack(Base64Digits(s))

\* `ivLength`, `authTagLength`, and the key length of 'aes-256-gcm'
ivLength == 16

authTagLength == 16

Aes256KeyLength == 32

\* `keyString.length < 32`
MinKeyStringLength == 32

\* the weight of the byte at offset i in a digest
Weight(i, mul) == (i * mul + 1) * (i + mul)

RECURSIVE WeightedSum(_, _, _, _, _)
WeightedSum(bytes, lo, hi, mul, modulus) ==
  IF lo > hi THEN 0
  ELSE IF lo = hi THEN (bytes[lo] * (Weight(lo, mul) % modulus)) % modulus
  ELSE LET mid == (lo + hi) \div 2
       IN (WeightedSum(bytes, lo, mid, mul, modulus)
           + WeightedSum(bytes, mid + 1, hi, mul, modulus)) % modulus

\* a digest of bytes, every byte weighted by its offset, modulo a prime
MixBytes(bytes, h, mul, modulus) ==
  (h * 8191 + Len(bytes) + WeightedSum(bytes, 1, Len(bytes), mul, modulus))
    % modulus

\* the key stream of the cipher for a key and an IV: its seed, and its
\* byte at offset i
KeyStreamSeed(key, iv) == MixBytes(key \o iv, 7, 31, 32749)

KeyStream(seed, i) == (seed * (2 * i + 1) + i) % 256

\* the authentication tag of AES-GCM for a key, an IV and a ciphertext: a
\* keyed digest of 16 bytes that differs whenever one byte of the IV or of
\* the ciphertext does
GcmTag(key, iv, ct) ==
  LET h1 == MixBytes(key \o iv \o ct, 7 + Len(ct), 31, 32749)
      h2 == MixBytes(key \o iv \o ct, 11 + Len(iv), 37, 32719)
  IN [j \in 1..16 |->
        CASE j = 1 -> h1 \div 256
          [] j = 2 -> h1 % 256
          [] j = 3 -> h2 \div 256
          [] j = 4 -> h2 % 256
          [] OTHER -> (h1 * j + h2) % 256]

\* the tag lengths crypto accepts for GCM
GcmTagLengths == {4, 8, 12, 13, 14, 15, 16}

\* crypto.createCipheriv('aes-256-gcm', key, iv), update, final and
\* getAuthTag: throws for a key that is not 32 bytes long and for an empty
\* IV
Cipher(key, iv, plain) ==
  IF Len(key) # Aes256KeyLength \/ iv = <<>>
    THEN [threw |-> TRUE, ct |-> <<>>, tag |-> <<>>]
  ELSE LET seed == KeyStreamSeed(key, iv)
           ct == [i \in 1..Len(plain) |-> (plain[i] + KeyStream(seed, i)) % 256]
       IN [threw |-> FALSE, ct |-> ct, tag |-> GcmTag(key, iv, ct)]

\* crypto.createDecipheriv('aes-256-gcm', key, iv), setAuthTag, update and
\* final: throws as createCipheriv does, for a tag of a length GCM does not
\* accept, and when the tag does not authenticate the IV and the ciphertext
DecipherUnauthenticated(key, iv, authTag, ct) ==
  IF Len(key) # Aes256KeyLength \/ iv = <<>> \/ Len(authTag) \notin GcmTagLengths
    THEN [threw |-> TRUE, plain |-> <<>>]
  ELSE LET seed == KeyStreamSeed(key, iv)
       IN [threw |-> FALSE,
           plain |-> [i \in 1..Len(ct) |-> (ct[i] + 256 - KeyStream(seed, i)) % 256]]

Decipher(key, iv, authTag, ct) ==
  IF Len(key) # Aes256KeyLength \/ iv = <<>> \/ Len(authTag) \notin GcmTagLengths
    THEN [threw |-> TRUE, plain |-> <<>>]
  ELSE IF SubSeq(GcmTag(key, iv, ct), 1, Len(authTag)) # authTag
    THEN [threw |-> TRUE, plain |-> <<>>]
  ELSE LET seed == KeyStreamSeed(key, iv)
       IN [threw |-> FALSE,
           plain |-> [i \in 1..Len(ct) |-> (ct[i] + 256 - KeyStream(seed, i)) % 256]]

\* buf.slice(start, end) with offsets counted from 0, negative ones from
\* the end of the buffer
Slice(buf, start, end) ==
  LET from == IF start < 0 THEN (IF Len(buf) + start < 0 THEN 0 ELSE Len(buf) + start)
              ELSE (IF start > Len(buf) THEN Len(buf) ELSE start)
      to == IF end < 0 THEN (IF Len(buf) + end < 0 THEN 0 ELSE Len(buf) + end)
            ELSE (IF end > Len(buf) THEN Len(buf) ELSE end)
  IN SubSeq(buf, from + 1, to)

\* 'dbencryptionsecretkeyfordevelopment'
FallbackKeyString ==
  <<"d", "b", "e", "n", "c", "r", "y", "p", "t", "i", "o", "n",
    "s", "e", "c", "r", "e", "t", "k", "e", "y", "f", "o", "r",
    "d", "e", "v", "e", "l", "o", "p", "m", "e", "n", "t">>

\* '[Decryption failed]'
DecryptionFailed ==
  <<"[", "D", "e", "c", "r", "y", "p", "t", "i", "o", "n", " ",
    "f", "a", "i", "l", "e", "d", "]">>

\* new DatabaseEncryptionService(configService)
DatabaseEncryptionServiceConstructor(e) ==
  LET keyString == ConfigGet(e, "DB_ENCRYPTION_KEY", <<>>)
  IN IF ~Truthy(keyString) \/ Len(keyString) < MinKeyStringLength
       THEN [threw |-> FALSE, warned |-> TRUE,
             encryptionKey |-> Utf8Bytes(FallbackKeyString)]
       ELSE [threw |-> FALSE, warned |-> FALSE,
             encryptionKey |-> Utf8Bytes(SubSeq(keyString, 1, 32))]

\* the outcome of a call of encrypt or decrypt: the value returned or the
\* message of the Error thrown, the IV drawn (none: empty), whether the
\* cipher was invoked and whether an error was caught inside
Outcome(value, threw, iv, invoked, caught) ==
  [value |-> value, threw |-> threw, iv |-> iv, invoked |-> invoked,
   caught |-> caught]

\* encrypt(text), crypto.randomBytes(this.ivLength) returning randomBytes
encryptAlways(svc, text, randomBytes) ==
  LET iv == randomBytes
      c == Cipher(svc.encryptionKey, iv, Utf8Bytes(text))
      encrypted == HexEncode(c.ct)
  IN IF c.threw
       THEN Outcome(<<"Failed to encrypt data">>, TRUE, iv, TRUE, TRUE)
     ELSE Outcome(Base64Encode(iv \o BufferFromHex(encrypted) \o c.tag),
                  FALSE, iv, TRUE, FALSE)

encrypt(svc, text, randomBytes) ==
  IF ~Truthy(text) THEN Outcome(text, FALSE, <<>>, FALSE, FALSE)
  ELSE LET iv == randomBytes
           c == Cipher(svc.encryptionKey, iv, Utf8Bytes(text))
           encrypted == HexEncode(c.ct)
       IN IF c.threw
            THEN Outcome(<<"Failed to encrypt data">>, TRUE, iv, TRUE, TRUE)
          ELSE Outcome(Base64Encode(iv \o BufferFromHex(encrypted) \o c.tag),
                       FALSE, iv, TRUE, FALSE)

\* the IV, the authentication tag and the encrypted data of a stored buffer
SplitBufferTagAfterIv(buffer) ==
  [iv |-> Slice(buffer, 0, ivLength),
   authTag |-> Slice(buffer, ivLength, ivLength + authTagLength),
   encrypted |-> Slice(buffer, ivLength + authTagLength, Len(buffer))]

SplitBuffer(buffer) ==
  [iv |-> Slice(buffer, 0, ivLength),
   authTag |-> Slice(buffer, Len(buffer) - authTagLength, Len(buffer)),
   encrypted |-> Slice(buffer, ivLength, Len(buffer) - authTagLength)]

\* decrypt(encryptedText)
decrypt(svc, encryptedText) ==
  IF ~Truthy(encryptedText) THEN Outcome(encryptedText, FALSE, <<>>, FALSE, FALSE)
  ELSE LET buffer == BufferFromBase64(encryptedText)
           parts == SplitBuffer(buffer)
           d == Decipher(svc.encryptionKey, parts.iv, parts.authTag,
                         BufferFromHex(HexEncode(parts.encrypted)))
       IN IF d.threw
            THEN Outcome(DecryptionFailed, FALSE, parts.iv, TRUE, TRUE)
          ELSE Outcome(Utf8Decode(d.plain), FALSE, parts.iv, TRUE, FALSE)

(***************************************************************************)
(* UsersService and the users table                                        *)
(***************************************************************************)

\* the request handlers that call UsersService side by side
Handlers == {1, 2}

\* a row of the users table: id, email, password, and the password its
\* user supplied last, which the table does not hold; here no row
NoRow == [id |-> 0, email |-> <<>>, password |-> <<>>, supplied |-> <<>>]

\* a handler that is in no call
IdleHandler ==
  [op |-> "none", pc |-> "idle", id |-> 0, email |-> <<>>, password |-> <<>>,
   hashed |-> <<>>, kind |-> "none", value |-> NoRow]

\* bcrypt.hash(data, salt): a string that holds the salt and is determined
\* by the salt and the data
bcryptHash(data, salt) == <<"$2b$", salt>> \o data

\* bcrypt.compare(data, encrypted): hashes data with the salt of encrypted
bcryptCompare(data, encrypted) ==
  /\ Len(encrypted) >= 2
  /\ encrypted[1] = "$2b$"
  /\ encrypted = bcryptHash(data, encrypted[2])

\* User.hashPassword, the BeforeInsert and BeforeUpdate hook of the entity
UserHashPassword(user, salt) ==
  IF Truthy(user.password) THEN [user EXCEPT !.password = bcryptHash(@, salt)]
  ELSE user

\* usersRepository.save(user) of a new entity: the BeforeInsert hook runs,
\* then the row is inserted under a generated id unless a row holds its
\* email (`unique: true`), in which case the insert fails
RepositorySaveUnconstrained(table, user, salt) ==
  LET hooked == UserHashPassword(user, salt)
      row == [hooked EXCEPT !.id = table.inserted + 1]
  IN [table |-> [rows |-> table.rows \cup {row}, inserted |-> table.inserted + 1],
      threw |-> FALSE, row |-> row]

RepositorySave(table, user, salt) ==
  LET hooked == UserHashPassword(user, salt)
      row == [hooked EXCEPT !.id = table.inserted + 1]
  IN IF \E r \in table.rows : r.email = user.email
       THEN [table |-> table, threw |-> TRUE, row |-> NoRow]
       ELSE [table |-> [rows |-> table.rows \cup {row},
                        inserted |-> table.inserted + 1],
             threw |-> FALSE, row |-> row]

\* usersRepository.update(id, partial): an UPDATE of the rows with that id,
\* without entity hooks; affected is the number of rows changed
RepositoryUpdateOrInsert(table, id, partial) ==
  [table |-> [table EXCEPT !.rows =
                { r \in @ : r.id # id }
                \cup {[NoRow EXCEPT !.id = id, !.password = partial.password,
                                    !.supplied = partial.supplied]}],
   affected |-> 1]

RepositoryUpdate(table, id, partial) ==
  LET hit == { r \in table.rows : r.id = id }
  IN [table |-> [table EXCEPT !.rows =
                   (@ \ hit)
                   \cup { [r EXCEPT !.password = partial.password,
                                    !.supplied = partial.supplied] : r \in hit }],
      affected |-> Cardinality(hit)]

\* emails, passwords and salts of the calls, and the ids asked for
UserInputs ==
  [emails |-> {<<"a@x">>, <<"b@x">>},
   passwords |-> {<<"p">>, <<"q">>},
   salts |-> {"s1"},
   ids |-> {1, 2}]

\* the number of rows the model lets the table generate an id for
MaxInserts == 2

(***************************************************************************)
(* The inputs of the model                                                 *)
(***************************************************************************)

\* Date.now() of the first step, and the time the model lets pass after it
StartMs == 1000000

MaxElapsedMs == 301000

\* the times after StartMs at which the clock is read, in milliseconds
Elapsed == {0, 500, 1000, 300000, 300500, 301000}

Str_1000 == <<"1", "0", "0", "0">>
Str_1000x == <<"1", "0", "0", "0", "x">>
Str_x == <<"x">>

Methods == {Str_GET, Str_POST}

Paths == {Str_u, Str_p}

\* the canonical BODY strings a signature may have been computed over
BodyContents == { BodyContent(v) : v \in JsValues }

\* x-service-id values presented to the guard
ServiceIdHeaders == {undefined, UserService, PetService, EvilService}

\* x-request-timestamp values presented to the guard
TimestampHeaders == {undefined, Str_1000, Str_1000x, Str_x}

\* keys a presented signature may have been computed with
SigningKeys == {Str_k, Str_g, <<>>}

\* a hex signature with its letters in upper case, with its last character
\* replaced by one that is no hex digit, and with its last character dropped
Mangled(sig) ==
  { ToUpperCase(sig),
    SubSeq(sig, 1, Len(sig) - 1) \o <<"z">>,
    SubSeq(sig, 1, Len(sig) - 1) }

\* x-request-signature values presented with a request of the given
\* content: none, the signature of that content under each key, the
\* signature of a content that differs in one component, and mangled forms
\* of the signature of that content
SignatureHeaders(ts, method, path, body) ==
  LET t == IF ts = undefined THEN <<>> ELSE ts
      b == BodyContent(body)
      own(k) == createSignature(SignatureContent(method, path, t, b), k)
  IN {undefined}
     \cup { own(k) : k \in SigningKeys }
     \cup { createSignature(SignatureContent(m, path, t, b), k) :
              m \in Methods, k \in SigningKeys }
     \cup { createSignature(SignatureContent(method, p, t, b), k) :
              p \in Paths, k \in SigningKeys }
     \cup { createSignature(SignatureContent(method, path, t, c), k) :
              c \in BodyContents, k \in SigningKeys }
     \cup UNION { Mangled(own(k)) : k \in SigningKeys }

\* axios configs handed to the signer
OutboundMethods == {undefined, Str_get, Str_POST}

OutboundUrls == {Str_u, Str_uQuery}

\* config.headers as the caller passes it: none, empty, or one entry
OutboundHeaders == {undefined, <<>>, <<"accept: application/json">>}

OutboundConfigs ==
  { [NoConfig EXCEPT !.method = m, !.url = u, !.data = d, !.headers = h] :
      m \in OutboundMethods, u \in OutboundUrls, d \in JsValues,
      h \in OutboundHeaders }

\* strings handed to safeCompare: hex of several lengths, upper-case hex,
\* text that is no hex, and text that is hex only in part
CompareInputs ==
  { <<>>, <<"a">>, <<"a", "b">>, <<"A", "B">>, <<"1", "2">>, <<"z", "z">>,
    <<"a", "b", "z">>, <<"a", "b", "c", "d">>, <<"a", "b", "z", "z">>,
    <<"z", "z", "c", "d">>, <<"1", "2", "a", "b">>,
    <<"a", "b", "c", "d", "e", "f">> }

\* no call of safeCompare yet
NoCompare ==
  [called |-> FALSE, a |-> <<>>, b |-> <<>>,
   out |-> [threw |-> FALSE, compared |-> FALSE, value |-> FALSE]]

\* values of DB_ENCRYPTION_KEY: missing, short, exactly 32 characters,
\* longer, and 32 characters of which one takes two bytes in UTF-8
KeyShort == <<"a", "b", "c">>

Key32 == [i \in 1..32 |-> "a"]

KeyLong == [i \in 1..33 |-> "b"]

KeyMultiByte == <<"é">> \o [i \in 1..31 |-> "a"]

DbKeyStrings == {undefined, KeyShort, Key32, KeyLong, KeyMultiByte}

DbEnvironments == { [n \in {"DB_ENCRYPTION_KEY"} |-> k] : k \in DbKeyStrings }

\* the configuration of another process, whose key differs
ReaderEnvironment == [n \in {"DB_ENCRYPTION_KEY"} |-> [i \in 1..32 |-> "z"]]

\* texts handed to encrypt
Plaintexts == {<<>>, <<"a">>, <<"é", "b">>, DecryptionFailed}

\* values crypto.randomBytes(16) returns
RandomIvs == { [i \in 1..16 |-> 0], [i \in 1..16 |-> (37 * i) % 256] }

\* the number of (iv, text) pairs the model lets one instance encrypt
MaxEncryptCalls == 2

\* offsets of the bytes of a stored buffer the model changes: the first and
\* the last byte of the IV, of the encrypted data and of the tag
TamperOffsets(buffer) ==
  { o \in {1, ivLength, ivLength + 1, Len(buffer) - authTagLength,
           Len(buffer) - authTagLength + 1, Len(buffer)} :
      o >= 1 /\ o <= Len(buffer) }

\* what is added to a byte that is changed
TamperDeltas == {1, 128}

\* no call of encrypt or decrypt yet
NoOutput ==
  [op |-> "none", who |-> "none", arg |-> <<>>, expected |-> undefined,
   tampered |-> FALSE, value |-> <<>>, threw |-> FALSE, iv |-> <<>>,
   invoked |-> FALSE, caught |-> FALSE]

\* a call of `op` on the instance of `who` with `arg`, and its outcome `o`
Call(op, who, arg, expected, wasTampered, o) ==
  [op |-> op, who |-> who, arg |-> arg, expected |-> expected,
   tampered |-> wasTampered, value |-> o.value, threw |-> o.threw,
   iv |-> o.iv, invoked |-> o.invoked, caught |-> o.caught]

(***************************************************************************)
(* The state machine                                                       *)
(***************************************************************************)

VARIABLES
  env,        \* the configuration the process was started with
  guard,      \* the ServiceAuthGuard instance
  client,     \* the ServiceAuthClient instance
  nowMs,      \* Date.now()
  config,     \* the outbound request the client signed last, or NoConfig
  inflight,   \* that request on its way to the guard, or NoRequest
  request,    \* the request canActivate was called on last, or NoRequest
  origin,     \* where that request came from: "client", "presented", "none"
  result,     \* what that call of canActivate returned or threw
  cmp,        \* the last call of safeCompare on its own: inputs and outcome
  dbEnv,      \* DB_ENCRYPTION_KEY of the process that writes the fields
  service,    \* its DatabaseEncryptionService instance
  reader,     \* the DatabaseEncryptionService instance of another process
  stored,     \* the string held in the place of the field
  written,    \* the plaintext of the encrypt call that produced it
  tampered,   \* whether it was changed since
  output,     \* the last call of encrypt or decrypt and its outcome
  ivLog,      \* the (iv, plaintext) pairs service.encrypt has used
  pending,    \* per verification in progress: its request and its outcome
  accepted,   \* the requests canActivate has returned true for so far
  users,      \* the rows of the users table
  procs,      \* per request handler: the UsersService call it is in
  entity      \* a User entity in memory

authVars == <<env, guard, client, nowMs, config, inflight, request, origin, result>>

compareVars == <<cmp>>

cipherVars == <<dbEnv, service, reader, stored, written, tampered, output, ivLog>>

replayVars == <<pending, accepted>>

usersVars == <<users, procs>>

entityVars == <<entity>>

vars == <<authVars, compareVars, cipherVars, replayVars, usersVars, entityVars>>

\* the guard and the client at rest, for the runs that are not about them
AuthAtRest ==
  /\ env = [n \in EnvNames |-> undefined]
  /\ guard = ServiceAuthGuardConstructor(env)
  /\ client = ServiceAuthClientConstructor(env)
  /\ nowMs = StartMs
  /\ config = NoConfig
  /\ inflight = NoRequest
  /\ request = NoRequest
  /\ origin = "none"
  /\ result = NoResult

CompareAtRest == cmp = NoCompare

\* the field encryption at rest
CipherAtRest ==
  /\ dbEnv = [n \in {"DB_ENCRYPTION_KEY"} |-> undefined]
  /\ service = DatabaseEncryptionServiceConstructor(dbEnv)
  /\ reader = DatabaseEncryptionServiceConstructor(ReaderEnvironment)
  /\ stored = undefined
  /\ written = undefined
  /\ tampered = FALSE
  /\ output = NoOutput
  /\ ivLog = {}

\* the verifications that run side by side
Verifiers == {1, 2}

\* no verification in progress, none accepted yet
ReplayAtRest ==
  /\ pending = [w \in Verifiers |-> [req |-> NoRequest, result |-> NoResult]]
  /\ accepted = {}

\* an empty users table and no call of UsersService
UsersAtRest ==
  /\ users = [rows |-> {}, inserted |-> 0]
  /\ procs = [h \in Handlers |-> IdleHandler]

\* no User entity in memory
EntityAtRest == entity = <<>>

\* the phone numbers a User entity is built with (null is modelled by
\* undefined: the code tests it for truthiness only) and the
\* DatabaseEncryptionService handed to the entity, one with a key of its own
EntityInputs ==
  [phones |-> {undefined, <<"5">>, <<"6", "7">>},
   service |-> DatabaseEncryptionServiceConstructor(
                 [n \in {"DB_ENCRYPTION_KEY"} |-> Key32])]

\* the number of times the model lets one entity call service.encrypt
MaxPhoneEncrypts == 2

Init ==
  /\ CompareAtRest
  /\ CipherAtRest
  /\ ReplayAtRest
  /\ UsersAtRest
  /\ EntityAtRest
  /\ env \in Environments
  /\ guard = ServiceAuthGuardConstructor(env)
  /\ client = ServiceAuthClientConstructor(env)
  /\ nowMs = StartMs
  /\ config = NoConfig
  /\ inflight = NoRequest
  /\ request = NoRequest
  /\ origin = "none"
  /\ result = NoResult

\* no exchange is under way
Idle == config = NoConfig /\ inflight = NoRequest /\ request = NoRequest

\* time passes, except between a call of canActivate and its response
Tick ==
  /\ request = NoRequest
  /\ \E d \in Elapsed :
       /\ d <= MaxElapsedMs
       /\ StartMs + d > nowMs
       /\ nowMs' = StartMs + d
  /\ UNCHANGED <<env, guard, client, config, inflight, request, origin, result>>
  /\ UNCHANGED <<compareVars, cipherVars, replayVars, usersVars, entityVars>>

\* a caller hands an outbound request to the client
Request ==
  /\ Idle
  /\ ~client.threw
  /\ \E cfg \in OutboundConfigs : config' = cfg
  /\ UNCHANGED <<env, guard, client, nowMs, inflight, request, origin, result>>
  /\ UNCHANGED <<compareVars, cipherVars, replayVars, usersVars, entityVars>>

\* the request interceptor of the client signs the outbound request
SignRequest ==
  /\ config # NoConfig
  /\ config.sig = undefined
  /\ config' = signRequest(config, nowMs, client)
  /\ UNCHANGED <<env, guard, client, nowMs, inflight, request, origin, result>>
  /\ UNCHANGED <<compareVars, cipherVars, replayVars, usersVars, entityVars>>

\* the signed request is sent
Send ==
  /\ config # NoConfig
  /\ config.sig # undefined
  /\ inflight = NoRequest
  /\ request = NoRequest
  /\ inflight' = Transport(config)
  /\ UNCHANGED <<env, guard, client, nowMs, config, request, origin, result>>
  /\ UNCHANGED <<compareVars, cipherVars, replayVars, usersVars, entityVars>>

\* the guard verifies the request the client sent
CanActivateSent ==
  /\ inflight # NoRequest
  /\ request' = inflight
  /\ origin' = "client"
  /\ result' = canActivate(inflight, nowMs, guard.apiKeys, guard.allowedServices)
  /\ inflight' = NoRequest
  /\ UNCHANGED <<env, guard, client, nowMs, config>>
  /\ UNCHANGED <<compareVars, cipherVars, replayVars, usersVars, entityVars>>

\* the guard verifies a request presented by another caller
CanActivatePresented ==
  /\ Idle
  /\ \E sid \in ServiceIdHeaders, ts \in TimestampHeaders,
        m \in Methods, p \in Paths, b \in JsValues :
       \E sig \in SignatureHeaders(ts, m, p, b) :
         LET req == [sid |-> sid, ts |-> ts, sig |-> sig,
                     method |-> m, path |-> p, body |-> b]
         IN /\ request' = req
            /\ result' = canActivate(req, nowMs, guard.apiKeys,
                                     guard.allowedServices)
  /\ origin' = "presented"
  /\ UNCHANGED <<env, guard, client, nowMs, config, inflight>>
  /\ UNCHANGED <<compareVars, cipherVars, replayVars, usersVars, entityVars>>

\* the caller receives the response; the exchange is over
Respond ==
  /\ request # NoRequest
  /\ config' = NoConfig
  /\ request' = NoRequest
  /\ origin' = "none"
  /\ result' = NoResult
  /\ UNCHANGED <<env, guard, client, nowMs, inflight>>
  /\ UNCHANGED <<compareVars, cipherVars, replayVars, usersVars, entityVars>>

Next ==
  \/ Tick
  \/ Request
  \/ SignRequest
  \/ Send
  \/ CanActivateSent
  \/ CanActivatePresented
  \/ Respond

Spec == Init /\ [][Next]_vars

(***************************************************************************)
(* safeCompare on its own                                                  *)
(***************************************************************************)

InitCompare ==
  /\ AuthAtRest
  /\ CipherAtRest
  /\ ReplayAtRest
  /\ UsersAtRest
  /\ EntityAtRest
  /\ cmp = NoCompare

\* safeCompare(a, b) is called
SafeCompare ==
  /\ \E a \in CompareInputs, b \in CompareInputs :
       cmp' = [called |-> TRUE, a |-> a, b |-> b, out |-> safeCompareTry(a, b)]
  /\ UNCHANGED <<authVars, cipherVars, replayVars, usersVars, entityVars>>

NextCompare == SafeCompare

SpecCompare == InitCompare /\ [][NextCompare]_vars

(***************************************************************************)
(* The field encryption                                                    *)
(***************************************************************************)

InitCipher ==
  /\ AuthAtRest
  /\ CompareAtRest
  /\ ReplayAtRest
  /\ UsersAtRest
  /\ EntityAtRest
  /\ dbEnv \in DbEnvironments
  /\ service = DatabaseEncryptionServiceConstructor(dbEnv)
  /\ reader = DatabaseEncryptionServiceConstructor(ReaderEnvironment)
  /\ stored = undefined
  /\ written = undefined
  /\ tampered = FALSE
  /\ output = NoOutput
  /\ ivLog = {}

\* service.encrypt(text) is called and what it returns is stored
Encrypt ==
  /\ Cardinality(ivLog) < MaxEncryptCalls
  /\ \E text \in Plaintexts, randomBytes \in RandomIvs :
       LET o == encrypt(service, text, randomBytes)
       IN /\ output' = Call("encrypt", "service", text, text, FALSE, o)
          /\ ivLog' = IF o.invoked THEN ivLog \cup {[iv |-> o.iv, text |-> text]}
                      ELSE ivLog
          /\ IF o.threw THEN UNCHANGED <<stored, written, tampered>>
             ELSE /\ stored' = o.value
                  /\ written' = text
                  /\ tampered' = FALSE
  /\ UNCHANGED <<dbEnv, service, reader>>
  /\ UNCHANGED <<authVars, compareVars, replayVars, usersVars, entityVars>>

\* one byte of the stored buffer is changed
Tamper ==
  /\ stored # undefined
  /\ stored # <<>>
  /\ ~tampered
  /\ LET buffer == BufferFromBase64(stored)
     IN \E o \in TamperOffsets(buffer), d \in TamperDeltas :
          stored' = Base64Encode([buffer EXCEPT ![o] = (@ + d) % 256])
  /\ tampered' = TRUE
  /\ UNCHANGED <<dbEnv, service, reader, written, output, ivLog>>
  /\ UNCHANGED <<authVars, compareVars, replayVars, usersVars, entityVars>>

\* decrypt is called on the writing instance or on the one with another
\* key, with what is stored or with the empty string
Decrypt ==
  /\ \E who \in {"service", "reader"}, arg \in {<<>>, stored} \ {undefined} :
       LET svc == IF who = "service" THEN service ELSE reader
           expected == IF arg = <<>> THEN <<>> ELSE written
       IN output' = Call("decrypt", who, arg, expected,
                         arg # <<>> /\ tampered, decrypt(svc, arg))
  /\ UNCHANGED <<dbEnv, service, reader, stored, written, tampered, ivLog>>
  /\ UNCHANGED <<authVars, compareVars, replayVars, usersVars, entityVars>>

NextCipher ==
  \/ Encrypt
  \/ Tamper
  \/ Decrypt

SpecCipher == InitCipher /\ [][NextCipher]_vars

(***************************************************************************)
(* Verifications side by side, over time                                   *)
(***************************************************************************)

\* the requests presented: GET requests without body in the name of
\* user-service, with a past, a later and a far later timestamp, with a
\* colon in the path or in the timestamp header, each signed with the
\* user-service key or with another key
ReplayRequests ==
  { [sid |-> UserService, ts |-> pt[2],
     sig |-> createSignature(
               SignatureContent(Str_GET, pt[1], pt[2], BodyContent("undefined")), k),
     method |-> Str_GET, path |-> pt[1], body |-> "undefined"] :
      pt \in { <<Str_u, Str_1000>>,
               <<Str_u, <<"1", "2", "0", "0">>>>,
               <<Str_u, <<"9", "9", "9", "9">>>>,
               <<Str_u \o <<":">> \o Str_1000, Str_1000>>,
               <<Str_u, Str_1000 \o <<":">> \o Str_1000>> },
      k \in {Str_k, Str_g} }

\* Date.now() at the calls, in milliseconds
ReplayClock == {1000000, 1300000, 1301000, 1500000, 1501000, 10299000, 10300000}

InitReplay ==
  /\ CompareAtRest
  /\ CipherAtRest
  /\ UsersAtRest
  /\ EntityAtRest
  /\ env \in Environments
  /\ guard = ServiceAuthGuardConstructor(env)
  /\ client = ServiceAuthClientConstructor(env)
  /\ nowMs = StartMs
  /\ config = NoConfig
  /\ inflight = NoRequest
  /\ request = NoRequest
  /\ origin = "none"
  /\ result = NoResult
  /\ pending = [w \in Verifiers |-> [req |-> NoRequest, result |-> NoResult]]
  /\ accepted = {}

\* time passes between the calls
Later ==
  /\ \A w \in Verifiers : pending[w].req = NoRequest
  /\ \E t \in ReplayClock : t > nowMs /\ nowMs' = t
  /\ UNCHANGED <<env, guard, client, config, inflight, request, origin, result>>
  /\ UNCHANGED <<pending, accepted>>
  /\ UNCHANGED <<compareVars, cipherVars, usersVars, entityVars>>

\* a request arrives and canActivate runs on it, while other verifications
\* may be waiting for their response
Verify ==
  /\ \E w \in Verifiers, req \in ReplayRequests :
       LET res == canActivate(req, nowMs, guard.apiKeys, guard.allowedServices)
       IN /\ pending[w].req = NoRequest
          /\ pending' = [pending EXCEPT ![w] = [req |-> req, result |-> res]]
          /\ accepted' = IF res.accepted THEN accepted \cup {req} ELSE accepted
          /\ guard' = guardAfter(guard, req)
  /\ UNCHANGED <<env, client, nowMs, config, inflight, request, origin, result>>
  /\ UNCHANGED <<compareVars, cipherVars, usersVars, entityVars>>

\* a verification's response is sent
Answer ==
  /\ \E w \in Verifiers :
       /\ pending[w].req # NoRequest
       /\ pending' = [pending EXCEPT ![w] = [req |-> NoRequest, result |-> NoResult]]
  /\ UNCHANGED <<authVars, accepted>>
  /\ UNCHANGED <<compareVars, cipherVars, usersVars, entityVars>>

NextReplay ==
  \/ Later
  \/ Verify
  \/ Answer

SpecReplay == InitReplay /\ [][NextReplay]_vars

(***************************************************************************)
(* UsersService calls side by side                                         *)
(***************************************************************************)

InitUsers ==
  /\ AuthAtRest
  /\ CompareAtRest
  /\ CipherAtRest
  /\ ReplayAtRest
  /\ EntityAtRest
  /\ users = [rows |-> {}, inserted |-> 0]
  /\ procs = [h \in Handlers |-> IdleHandler]

\* handler h ends its call with outcome `kind` and value `value`
Done(h, kind, value) ==
  procs' = [procs EXCEPT ![h].pc = "done", ![h].kind = kind, ![h].value = value]

\* create(dto) up to the end of its existence check
CreateFind ==
  /\ \E h \in Handlers, email \in UserInputs.emails,
        password \in UserInputs.passwords, salt \in UserInputs.salts :
       /\ procs[h].pc \in {"idle", "done"}
       /\ users.inserted
            + Cardinality({ g \in Handlers : procs[g].pc = "save" }) < MaxInserts
       /\ IF \E r \in users.rows : r.email = email
            THEN procs' = [procs EXCEPT ![h] =
                   [IdleHandler EXCEPT !.op = "create", !.pc = "done",
                      !.email = email, !.password = password,
                      !.kind = "ConflictException"]]
            ELSE procs' = [procs EXCEPT ![h] =
                   [IdleHandler EXCEPT !.op = "create", !.pc = "save",
                      !.email = email, !.password = password,
                      !.hashed = bcryptHash(password, salt)]]
  /\ UNCHANGED users
  /\ UNCHANGED <<authVars, compareVars, cipherVars, replayVars, entityVars>>

\* create(dto) from usersRepository.create to the end of save
CreateSave ==
  /\ \E h \in Handlers, salt \in UserInputs.salts :
       LET user == [NoRow EXCEPT !.email = procs[h].email,
                                 !.password = procs[h].hashed,
                                 !.supplied = procs[h].password]
           saved == RepositorySave(users, user, salt)
       IN /\ procs[h].pc = "save"
          /\ users' = saved.table
          /\ IF saved.threw THEN Done(h, "QueryFailedError", NoRow)
             ELSE Done(h, "returned", saved.row)
  /\ UNCHANGED <<authVars, compareVars, cipherVars, replayVars, entityVars>>

\* findOne(id)
FindOne ==
  /\ \E h \in Handlers, id \in UserInputs.ids :
       /\ procs[h].pc \in {"idle", "done"}
       /\ procs' = [procs EXCEPT ![h] =
            IF \E r \in users.rows : r.id = id
              THEN [IdleHandler EXCEPT !.op = "findOne", !.pc = "done", !.id = id,
                      !.kind = "returned",
                      !.value = CHOOSE r \in users.rows : r.id = id]
              ELSE [IdleHandler EXCEPT !.op = "findOne", !.pc = "done", !.id = id,
                      !.kind = "NotFoundException"]]
  /\ UNCHANGED users
  /\ UNCHANGED <<authVars, compareVars, cipherVars, replayVars, entityVars>>

\* update(id, {password}) up to the end of usersRepository.update
UpdateWrite ==
  /\ \E h \in Handlers, id \in UserInputs.ids,
        password \in UserInputs.passwords, salt \in UserInputs.salts :
       LET partial == [password |-> bcryptHash(password, salt),
                       supplied |-> password]
           updated == RepositoryUpdate(users, id, partial)
       IN /\ procs[h].pc \in {"idle", "done"}
          /\ users' = updated.table
          /\ procs' = [procs EXCEPT ![h] =
               IF updated.affected = 0
                 THEN [IdleHandler EXCEPT !.op = "update", !.pc = "done",
                         !.id = id, !.password = password,
                         !.kind = "NotFoundException"]
                 ELSE [IdleHandler EXCEPT !.op = "update", !.pc = "read",
                         !.id = id, !.password = password,
                         !.hashed = partial.password]]
  /\ UNCHANGED <<authVars, compareVars, cipherVars, replayVars, entityVars>>

\* update(id, dto): its closing findOne(id)
UpdateRead ==
  /\ \E h \in Handlers :
       /\ procs[h].pc = "read"
       /\ IF \E r \in users.rows : r.id = procs[h].id
            THEN Done(h, "returned", CHOOSE r \in users.rows : r.id = procs[h].id)
            ELSE Done(h, "NotFoundException", NoRow)
  /\ UNCHANGED users
  /\ UNCHANGED <<authVars, compareVars, cipherVars, replayVars, entityVars>>

\* remove(id)
Remove ==
  /\ \E h \in Handlers, id \in UserInputs.ids :
       LET hit == { r \in users.rows : r.id = id }
       IN /\ procs[h].pc \in {"idle", "done"}
          /\ users' = [users EXCEPT !.rows = @ \ hit]
          /\ procs' = [procs EXCEPT ![h] =
               [IdleHandler EXCEPT !.op = "remove", !.pc = "done", !.id = id,
                  !.kind = IF hit = {} THEN "NotFoundException" ELSE "returned"]]
  /\ UNCHANGED <<authVars, compareVars, cipherVars, replayVars, entityVars>>

\* validateUser(email, password)
ValidateUser ==
  /\ \E h \in Handlers, email \in UserInputs.emails,
        password \in UserInputs.passwords :
       LET found == { r \in users.rows : r.email = email }
           user == CHOOSE r \in found : TRUE
       IN /\ procs[h].pc \in {"idle", "done"}
          /\ procs' = [procs EXCEPT ![h] =
               IF found # {} /\ bcryptCompare(password, user.password)
                 THEN [IdleHandler EXCEPT !.op = "validateUser", !.pc = "done",
                         !.email = email, !.password = password,
                         !.kind = "returned", !.value = user]
                 ELSE [IdleHandler EXCEPT !.op = "validateUser", !.pc = "done",
                         !.email = email, !.password = password,
                         !.kind = "UnauthorizedException"]]
  /\ UNCHANGED users
  /\ UNCHANGED <<authVars, compareVars, cipherVars, replayVars, entityVars>>

NextUsers ==
  \/ CreateFind
  \/ CreateSave
  \/ FindOne
  \/ UpdateWrite
  \/ UpdateRead
  \/ Remove
  \/ ValidateUser

SpecUsers == InitUsers /\ [][NextUsers]_vars

(***************************************************************************)
(* Properties                                                              *)
(***************************************************************************)

\* canActivate has been called and its caller has not been answered yet
Verified == request # NoRequest

\* the outcome of a call: Accepted, or the kind of the rejection
Reason(res) ==
  IF res.exception = "none"
    THEN (IF res.accepted THEN "Accepted" ELSE "None")
  ELSE IF res.exception # "UnauthorizedException" THEN "OtherFailure"
  ELSE CASE Head(res.message) = "Missing required authentication headers"
              -> "MissingHeaders"
         [] Head(res.message) = "Unknown service: " -> "UnknownService"
         [] Head(res.message) = "Request expired or invalid timestamp"
              -> "InvalidOrExpiredTimestamp"
         [] Head(res.message) = "Invalid service credentials"
              -> "InvalidServiceCredentials"
         [] Head(res.message) = "Invalid signature" -> "InvalidSignature"
         [] OTHER -> "OtherFailure"

RejectionReasons ==
  <<"MissingHeaders", "UnknownService", "InvalidOrExpiredTimestamp",
    "InvalidServiceCredentials", "InvalidSignature">>

\* the key the registry holds for the service a request claims to come
\* from; the empty key when it holds none
RegisteredKey(req) ==
  LET k == MapGet(guard.apiKeys, req.sid) IN IF k = undefined THEN <<>> ELSE k

\* the five checks, each stated on its own
HeaderPresence(req) ==
  /\ req.sid # undefined /\ req.sid # <<>>
  /\ req.ts # undefined /\ req.ts # <<>>
  /\ req.sig # undefined /\ req.sig # <<>>

KnownService(req) ==
  req.sid \in {UserService, ApiGateway, PetService, AuthService}

IsDecimalInteger(s) ==
  s # undefined /\ Len(s) > 0 /\ \A i \in 1..Len(s) : IsDigit(s[i])

FreshTimestamp(req) ==
  /\ ~ParseInt(req.ts).nan
  /\ nowMs \div 1000 - ParseInt(req.ts).val <= 300

KeyPresent(req) == RegisteredKey(req) # <<>>

\* the canonical string of the request as it arrived
InboundContent(req) ==
  req.method \o <<":">> \o req.path \o <<":">>
    \o (IF req.ts = undefined THEN <<>> ELSE req.ts) \o <<":">>
    \o (IF req.body = "undefined" THEN <<>> ELSE JsonStringify(req.body))

\* the supplied signature denotes, as hex, the bytes of the HMAC of the
\* inbound content under the registered key
SignatureMatch(req) ==
  /\ req.sig # undefined
  /\ Len(req.sig) = 8
  /\ BufferFromHex(req.sig) = HmacDigest(RegisteredKey(req), InboundContent(req))

Checks(req) ==
  <<HeaderPresence(req), KnownService(req), FreshTimestamp(req),
    KeyPresent(req), SignatureMatch(req)>>

\* C1: the rejection reason of a call is the reason of the earliest check,
\* in the order HeaderPresence, KnownService, FreshTimestamp, KeyPresent,
\* SignatureMatch, that the request fails, whatever later checks it fails too
C1_FirstFailureWins ==
  Verified =>
    \A i \in 1..5 :
      (~Checks(request)[i] /\ \A j \in 1..(i - 1) : Checks(request)[j])
        => Reason(result) = RejectionReasons[i]

\* a request of a registered service without key, with an expired timestamp
\* and a signature that does not match, rejected for its timestamp
C1_Witness ==
  /\ Verified
  /\ HeaderPresence(request) /\ KnownService(request)
  /\ ~ParseInt(request.ts).nan
  /\ nowMs \div 1000 - ParseInt(request.ts).val > 300
  /\ ~KeyPresent(request) /\ ~SignatureMatch(request)
  /\ Reason(result) = "InvalidOrExpiredTimestamp"

\* C2: every call ends either Accepted, and then all five checks pass, or
\* with an UnauthorizedException of one of the five reasons
C2_TerminalOutcome ==
  Verified =>
    \/ /\ Reason(result) = "Accepted"
       /\ \A i \in 1..5 : Checks(request)[i]
    \/ /\ result.exception = "UnauthorizedException"
       /\ ~result.accepted
       /\ \E i \in 1..5 : Reason(result) = RejectionReasons[i]

\* a request is accepted
C2_Witness == Verified /\ Reason(result) = "Accepted"

\* C3: once the headers are present and the service is known, a timestamp
\* that parses passes the freshness check when exactly 300 seconds old and
\* is rejected as InvalidOrExpiredTimestamp when 301 seconds old or older
C3_ReplayWindow ==
  (Verified /\ HeaderPresence(request) /\ KnownService(request)
     /\ ~ParseInt(request.ts).nan) =>
    LET age == nowMs \div 1000 - ParseInt(request.ts).val
    IN /\ age = 300 => Reason(result) # "InvalidOrExpiredTimestamp"
       /\ age >= 301 => Reason(result) = "InvalidOrExpiredTimestamp"

\* a request signed by the client is accepted exactly 300 seconds later
C3_Witness ==
  /\ Verified /\ origin = "client"
  /\ nowMs \div 1000 - ParseInt(request.ts).val = 300
  /\ Reason(result) = "Accepted"

\* C4: a request signed by the client with a non-empty key that the guard
\* registers for user-service, arriving with the same method, path and
\* body at most 300 seconds after it was signed, is accepted
C4_SignerVerifierAgree ==
  (/\ Verified /\ origin = "client"
   /\ client.serviceKey # <<>>
   /\ RegisteredKey(request) = client.serviceKey
   /\ request.path = config.url
   /\ request.body = config.data
   /\ nowMs \div 1000 - ParseInt(config.ts).val <= 300)
    => Reason(result) = "Accepted"

\* C5: a fresh request of a keyed service without body content, signed
\* over METHOD:PATH:TIMESTAMP: with the service's key, is accepted, also
\* when its body is presented as the empty object
C5_EmptyBodyAgrees ==
  (/\ Verified
   /\ KnownService(request) /\ KeyPresent(request) /\ FreshTimestamp(request)
   /\ request.body \in {"undefined", "{}"}
   /\ request.sig =
        createSignature(request.method \o <<":">> \o request.path \o <<":">>
                          \o request.ts \o <<":">>, RegisteredKey(request)))
    => Reason(result) = "Accepted"

\* the signature of req's method, path and timestamp with body content c,
\* under the key registered for req's service
SignedWith(req, m, p, c) ==
  createSignature(m \o <<":">> \o p \o <<":">> \o req.ts \o <<":">> \o c,
                  RegisteredKey(req))

\* the signature req carries was computed, under the registered key and
\* with req's timestamp, for a content that differs from req's in method,
\* path or body
Tampered(req) ==
  \E m \in Methods, p \in Paths, c \in BodyContents :
    /\ req.sig = SignedWith(req, m, p, c)
    /\ \/ m # req.method
       \/ p # req.path
       \/ c # (IF req.body = "undefined" THEN <<>> ELSE JsonStringify(req.body))

\* C6: a fresh request of a keyed service whose signature was computed for
\* another method, path or body is rejected as InvalidSignature
C6_TamperBreaksSignature ==
  (/\ Verified
   /\ KnownService(request) /\ KeyPresent(request) /\ FreshTimestamp(request)
   /\ Tampered(request))
    => Reason(result) = "InvalidSignature"

\* a request whose signature was computed for another body is rejected
C6_Witness ==
  /\ Verified
  /\ KnownService(request) /\ KeyPresent(request) /\ FreshTimestamp(request)
  /\ request.sig = SignedWith(request, request.method, request.path, <<>>)
  /\ request.body = "{x:1}"
  /\ Reason(result) = "InvalidSignature"

\* C7: a request with all headers whose service id is not in the registry
\* is rejected as UnknownService, whatever its timestamp and signature
C7_UnknownServiceRejected ==
  (Verified /\ HeaderPresence(request) /\ ~KnownService(request))
    => Reason(result) = "UnknownService"

\* a fresh request of an unknown service, signed with a key the registry
\* holds, is rejected
C7_Witness ==
  /\ Verified /\ ~KnownService(request) /\ FreshTimestamp(request)
  /\ request.sig = createSignature(InboundContent(request), Str_k)
  /\ Reason(result) = "UnknownService"

\* C8: a request claiming a registered service whose key is absent is
\* never accepted, and with a fresh timestamp it is rejected as
\* InvalidServiceCredentials
C8_AbsentKeyRejected ==
  (Verified /\ KnownService(request) /\ ~KeyPresent(request)) =>
    /\ Reason(result) # "Accepted"
    /\ (HeaderPresence(request) /\ FreshTimestamp(request))
         => Reason(result) = "InvalidServiceCredentials"

\* a fresh request carrying the HMAC of its content under the empty key
\* is rejected
C8_Witness ==
  /\ Verified /\ KnownService(request) /\ ~KeyPresent(request)
  /\ FreshTimestamp(request)
  /\ request.sig = createSignature(InboundContent(request), <<>>)
  /\ Reason(result) = "InvalidServiceCredentials"

\* C9: once the headers are present and the service is known, a timestamp
\* header that is not a decimal integer string is rejected as
\* InvalidOrExpiredTimestamp
C9_UnparsableTimestampRejected ==
  (Verified /\ HeaderPresence(request) /\ KnownService(request)
     /\ ~IsDecimalInteger(request.ts))
    => Reason(result) = "InvalidOrExpiredTimestamp"

\* C10: a client without configured key fails construction, and no client
\* emits a request signed with the empty key
C10_SignerNeedsKey ==
  /\ ConfigGet(env, "USER_SERVICE_KEY", <<>>) = <<>> => client.threw
  /\ config.sig # undefined => client.serviceKey # <<>>

\* the canonical BODY the signer derives from the data of a config
SignerBody(cfg) ==
  IF cfg.data \in {"{}", "{x:1}"} THEN JsonStringify(cfg.data) ELSE <<>>

\* the METHOD the signer derives from a config
SignerMethod(cfg) ==
  IF cfg.method = undefined \/ cfg.method = <<>> THEN Str_GET
  ELSE ToUpperCase(cfg.method)

\* C11: signRequest sets x-service-id to user-service, x-request-timestamp
\* to the current Unix seconds in decimal and x-request-signature to the
\* HMAC of the canonical string under the signer's key, and leaves method,
\* url, data and every other header as they were
C11_SignerFrame ==
  [][(config # NoConfig /\ config.sig = undefined /\ config'.sig # undefined) =>
       /\ config'.method = config.method
       /\ config'.url = config.url
       /\ config'.data = config.data
       /\ config'.headers = (IF config.headers = undefined THEN <<>> ELSE config.headers)
       /\ config'.sid = <<"user-service">>
       /\ IsDecimalInteger(config'.ts)
       /\ ParseInt(config'.ts).val = nowMs \div 1000
       /\ Len(config'.sig) = 8
       /\ BufferFromHex(config'.sig) =
            HmacDigest(client.serviceKey,
                       SignerMethod(config) \o <<":">> \o config.url \o <<":">>
                         \o config'.ts \o <<":">> \o SignerBody(config))
    ]_vars

\* a config with a lower-case method and a header of its own has been signed
C11_Witness ==
  /\ config.sig # undefined
  /\ config.method = Str_get
  /\ config.headers = <<"accept: application/json">>

\* C12: the PATH the signer puts into the canonical string is the URL
\* without its query string, the PATH the verifier derives for that URL
C12_SignerPathHasNoQuery ==
  config.sig # undefined =>
    config.sig =
      createSignature(SignerMethod(config) \o <<":">> \o PathOf(config.url)
                        \o <<":">> \o config.ts \o <<":">> \o SignerBody(config),
                      client.serviceKey)


\* C13: safeCompare returns false for inputs of different lengths without
\* comparing their contents, and no call of it throws: when the comparison
\* inside fails, for inputs that are not valid hex among others, it
\* returns false
C13_SafeCompareNeverThrows ==
  cmp.called =>
    /\ ~cmp.out.threw
    /\ (Len(cmp.a) # Len(cmp.b) => ~cmp.out.value /\ ~cmp.out.compared)
    /\ (timingSafeEqual(BufferFromHex(cmp.a), BufferFromHex(cmp.b)).threw
          => ~cmp.out.value)

\* two strings of one length that decode to buffers of different lengths
C13_Witness ==
  /\ cmp.called
  /\ Len(cmp.a) = Len(cmp.b)
  /\ Len(BufferFromHex(cmp.a)) # Len(BufferFromHex(cmp.b))
  /\ cmp.out.compared
  /\ ~cmp.out.value


\* a call of decrypt on something encrypt returned, changed or not
DecryptOfStored == output.op = "decrypt" /\ output.arg # <<>>

\* C14: decrypt, called by the instance that encrypted a non-empty
\* plaintext on what encrypt returned, returns that plaintext, whatever IV
\* encrypt drew
C14_RoundTrip ==
  (DecryptOfStored /\ output.who = "service" /\ ~output.tampered)
    => /\ output.value = output.expected
       /\ ~output.caught
       /\ ~output.threw

\* a plaintext with a character of two bytes went through both calls
C14_Witness ==
  /\ DecryptOfStored
  /\ output.who = "service"
  /\ ~output.tampered
  /\ Len(service.encryptionKey) = Aes256KeyLength
  /\ output.expected = <<"é", "b">>
  /\ output.value = <<"é", "b">>

\* C15: encrypt("") and decrypt("") return "" and neither draws an IV nor
\* invokes the cipher, whatever key the instance holds
C15_EmptyNoOp ==
  (output.op \in {"encrypt", "decrypt"} /\ output.arg = <<>>)
    => /\ output.value = <<>>
       /\ ~output.threw
       /\ output.iv = <<>>
       /\ ~output.invoked

\* encrypt("") on an instance whose key the cipher would refuse
C15_Witness ==
  /\ output.op = "encrypt"
  /\ output.arg = <<>>
  /\ output.value = <<>>
  /\ Len(service.encryptionKey) # Aes256KeyLength

\* C16: decrypt of what encrypt returned, with a byte of its IV, of its
\* encrypted data or of its tag changed, or under another key, reports a
\* failure, and a decryption that reports none returns the original
\* plaintext
C16_TamperDetected ==
  /\ (DecryptOfStored /\ (output.tampered \/ output.who = "reader"))
       => output.caught /\ output.value = DecryptionFailed
  /\ (DecryptOfStored /\ ~output.caught) => output.value = output.expected

\* the writing instance decrypted a changed buffer
C16_Witness ==
  /\ DecryptOfStored
  /\ output.who = "service"
  /\ output.tampered
  /\ output.caught
  /\ output.expected # DecryptionFailed

\* C17: what decrypt returns for a successful decryption is never what it
\* returns for a failed one
C17_FailureDistinguishable ==
  (DecryptOfStored /\ ~output.caught) => output.value # DecryptionFailed

\* the configured DB_ENCRYPTION_KEY
KeyMaterial == ConfigGet(dbEnv, "DB_ENCRYPTION_KEY", <<>>)

\* C18: construction fails when DB_ENCRYPTION_KEY is missing or shorter
\* than 32 characters, and no instance holds the fallback key
C18_NoFallbackKey ==
  /\ (~Truthy(KeyMaterial) \/ Len(KeyMaterial) < MinKeyStringLength)
       => service.threw
  /\ service.encryptionKey # Utf8Bytes(FallbackKeyString)

\* C19: the key an instance holds is 32 bytes long whatever
\* DB_ENCRYPTION_KEY was, and encrypt of a non-empty plaintext does not
\* fail
C19_KeyLength ==
  /\ Len(service.encryptionKey) = Aes256KeyLength
  /\ (output.op = "encrypt" /\ output.arg # <<>>) => ~output.threw

InitEntity ==
  /\ AuthAtRest
  /\ CompareAtRest
  /\ CipherAtRest
  /\ ReplayAtRest
  /\ UsersAtRest
  /\ \E p \in EntityInputs.phones :
       entity = [phoneNumber |-> p, isPhoneEncrypted |-> FALSE,
                 tempDecryptedPhone |-> undefined, phone |-> p, encrypts |-> 0]

\* user.loadDecryptedPhone()
LoadDecryptedPhone ==
  /\ entity' = [entity EXCEPT !.tempDecryptedPhone = entity.phoneNumber]
  /\ UNCHANGED <<authVars, compareVars, cipherVars, replayVars, usersVars>>

\* user.encryptPhoneNumber(databaseEncryptionService)
EncryptPhoneNumber ==
  /\ entity.encrypts < MaxPhoneEncrypts
  /\ \E randomBytes \in RandomIvs :
       entity' =
         IF /\ Truthy(entity.phoneNumber)
            /\ \/ ~entity.isPhoneEncrypted
               \/ entity.phoneNumber # entity.tempDecryptedPhone
           THEN LET o == encrypt(EntityInputs.service, entity.phoneNumber, randomBytes)
                IN IF o.threw
                     THEN [entity EXCEPT !.phoneNumber = undefined,
                                         !.isPhoneEncrypted = FALSE,
                                         !.encrypts = @ + 1]
                   ELSE [entity EXCEPT !.phoneNumber = o.value,
                                       !.isPhoneEncrypted = TRUE,
                                       !.encrypts = @ + 1]
         ELSE entity
  /\ UNCHANGED <<authVars, compareVars, cipherVars, replayVars, usersVars>>

\* user.decryptPhoneNumber(databaseEncryptionService)
DecryptPhoneNumber ==
  /\ entity' =
       IF entity.isPhoneEncrypted /\ Truthy(entity.phoneNumber)
         THEN LET o == decrypt(EntityInputs.service, entity.phoneNumber)
              IN IF o.threw
                   THEN [entity EXCEPT !.phoneNumber =
                           <<"[", "P", "r", "o", "t", "e", "c", "t", "e", "d", "]">>]
                 ELSE [entity EXCEPT !.phoneNumber = o.value]
       ELSE entity
  /\ UNCHANGED <<authVars, compareVars, cipherVars, replayVars, usersVars>>

NextEntity ==
  \/ LoadDecryptedPhone
  \/ EncryptPhoneNumber
  \/ DecryptPhoneNumber

SpecEntity == InitEntity /\ [][NextEntity]_vars

\* C21: the error of a rejection depends on the rejection reason alone:
\* the same request under any other x-service-id, when rejected for the
\* same reason, gets the identical error
C21_RejectionCarriesOnlyKind ==
  (Verified /\ result.exception # "none") =>
    \A sid \in ServiceIdHeaders \cup {<<"other-service">>} :
      LET other == canActivate([request EXCEPT !.sid = sid], nowMs,
                               guard.apiKeys, guard.allowedServices)
      IN Reason(other) = Reason(result) => other = result

\* C22: no call of canActivate changes the key table or the allow-list;
\* the outcome of every verification in progress is the one its request,
\* the time and the table give, whatever other verifications ran; and a
\* request accepted before is accepted again as long as the current time
\* is at most 300 seconds after its timestamp
C22_StatelessVerification ==
  [][ /\ guard' = guard
      /\ \A w \in Verifiers :
           pending'[w].req # NoRequest =>
             pending'[w].result =
               canActivate(pending'[w].req, nowMs', guard'.apiKeys,
                           guard'.allowedServices)
      /\ \A r \in accepted' :
           UnixSeconds(nowMs') - ParseInt(r.ts).val <= ReplayWindowSeconds =>
             canActivate(r, nowMs', guard'.apiKeys, guard'.allowedServices)
               = Returned(TRUE)
    ]_vars

\* a request accepted earlier is being accepted twice more at once, 300
\* seconds after its timestamp
C22_Witness ==
  /\ nowMs = 1300000
  /\ pending[1].req \in accepted
  /\ pending[1].req.ts = Str_1000
  /\ pending[2].req = pending[1].req
  /\ pending[1].result.accepted
  /\ pending[2].result.accepted

C26_CanonicalStringInjective ==
  \A r1 \in accepted, r2 \in accepted :
    (r1.sid = r2.sid /\ r1.sig = r2.sig) =>
      /\ r1.method = r2.method
      /\ r1.path = r2.path
      /\ r1.ts = r2.ts
      /\ r1.body = r2.body

\* C27: a request whose timestamp lies after the current time is not
\* rejected for its timestamp, and a request signed with the registered
\* key is accepted exactly as long as the current time is at most 300
\* seconds after its timestamp
C27_NoUpperBoundOnTimestamp ==
  \A w \in Verifiers :
    LET req == pending[w].req
        res == pending[w].result
        age == UnixSeconds(nowMs) - ParseInt(req.ts).val
        signed == /\ RegisteredKey(req) # <<>>
                  /\ req.sig = createSignature(InboundContent(req), RegisteredKey(req))
    IN req # NoRequest =>
         /\ age < 0 => Reason(res) # "InvalidOrExpiredTimestamp"
         /\ (signed /\ age <= ReplayWindowSeconds) => res.accepted
         /\ age > ReplayWindowSeconds => Reason(res) = "InvalidOrExpiredTimestamp"

\* a request stamped 8999 seconds ahead of the verifier's clock is accepted
C27_Witness ==
  /\ nowMs = StartMs
  /\ pending[1].req # NoRequest
  /\ pending[1].req.ts = <<"9", "9", "9", "9">>
  /\ pending[1].result.accepted

\* C28: canActivate returns true only for a supplied signature that is,
\* character for character, the lowercase hex signature it recomputed
C28_AcceptsOnlyIdenticalSignature ==
  (Verified /\ result.accepted) =>
    request.sig = createSignature(InboundContent(request), RegisteredKey(request))


C29_PasswordRoundTrip ==
  /\ \A r \in users.rows : bcryptCompare(r.supplied, r.password)
  /\ \A h \in Handlers :
       (procs[h].op = "validateUser" /\ procs[h].pc = "done"
        /\ \E r \in users.rows :
             r.email = procs[h].email /\ r.supplied = procs[h].password)
         => procs[h].kind = "returned"


\* C30: isPhoneEncrypted is set exactly when phoneNumber is one layer of
\* ciphertext over the user's phone number, and when it is not set
\* phoneNumber is the phone number itself
C30_FlagMatchesPhoneState ==
  IF entity.isPhoneEncrypted
    THEN /\ entity.phoneNumber # entity.phone
         /\ LET o == decrypt(EntityInputs.service, entity.phoneNumber)
            IN ~o.caught /\ o.value = entity.phone
  ELSE entity.phoneNumber = entity.phone

=============================================================================
